---- MODULE Spec2Model ----
(***************************************************************************)
(* The one-time-read message store of Celox.js: the model functions of     *)
(* src/models/message.ts (generateUniqueStub, validateMessage,             *)
(* createMessage, deleteMessage, getMessage, markMessageAsRead) and the    *)
(* route handlers that call them (POST /api/message, GET and DELETE        *)
(* /api/message/[stub]).                                                   *)
(*                                                                         *)
(* Every `await prisma...` is one atomic step of a request: a step is the  *)
(* store call together with the synchronous code that follows it up to the *)
(* next store call (or the response).  Requests interleave at these steps. *)
(*                                                                         *)
(* The browser side is the variable `client`: src/lib/crypto.ts (encrypt,   *)
(* decrypt, deriveKey and the base64 helpers), the message page            *)
(* app/[stub]/page.tsx in `client.view` and the creation page in           *)
(* `client.sender`.  A page's request runs in the server's first slot.     *)
(***************************************************************************)
EXTENDS Integers, Sequences, FiniteSets, TLC

\* ------------------------------------------------------------------ bounds
\* Number of HTTP requests handled in one run.
MaxReq == 3
\* The clock read by `new Date()` takes values 0..MaxClock.
MaxClock == 1
\* Number of requests in a run of the POST and DELETE handlers alone.
MaxCreateReq == 2

\* ------------------------------------------------------- program constants
\* generateUniqueStub's default arguments.
BatchSize == 5
Retries == 3
StubLength == 8
\* validateMessage's limits.
MinStubLength == 8
MaxStubLength == 32
MaxContentLength == 10000
\* encrypt's salt and iv sizes, deriveKey's default iterations and the size
\* of the tag AES-GCM appends (128 bits when no tagLength is given).
SaltLength == 16
IvLength == 12
Iterations == 10000
TagLength == 16

\* The 62-symbol character set of generateUniqueStub.
Characters ==
    { "A","B","C","D","E","F","G","H","I","J","K","L","M",
      "N","O","P","Q","R","S","T","U","V","W","X","Y","Z",
      "a","b","c","d","e","f","g","h","i","j","k","l","m",
      "n","o","p","q","r","s","t","u","v","w","x","y","z",
      "0","1","2","3","4","5","6","7","8","9" }

\* ------------------------------------------------------------------ values
\* A string the code only compares and measures: its text and its length.
Str(text, n) == [text |-> text, length |-> n]
EmptyString == Str("", 0)
\* The content written over a message when it is marked as read.
SENTINEL == Str("DEADBEEF", 8)

\* A Date is <<t>>; null (readAt of an unread message) is <<>>.
NULL == <<>>
Date(t) == <<t>>

\* A stub is a sequence of characters; '' is the empty sequence.
EmptyStub == <<>>
\* The random draws of generateUniqueStub, restricted to two candidates:
\* StubLength times the same character.
CandidateChars == {"A", "B"}
Candidates == { [i \in 1..StubLength |-> c] : c \in CandidateChars }
\* The batches of BatchSize candidates one pass of the retry loop may draw.
Batches == [1..BatchSize -> Candidates]
AnyBatch == CHOOSE candidates \in Batches : TRUE
\* The stubs a GET or DELETE request may name.
RequestStubs == Candidates
\* The bodies a POST request may carry.
Contents == { Str("hello", 5), SENTINEL, EmptyString }

\* Bodies at the limits of validateMessage's content rules: lengths 0, 1,
\* MaxContentLength and MaxContentLength + 1, besides the bodies above.
BoundaryContents ==
    Contents \cup { Str("a", 1), Str("a*MaxContentLength", MaxContentLength),
                    Str("a*(MaxContentLength+1)", MaxContentLength + 1) }
\* Stubs at the limits of validateMessage's stub rules: n times the character
\* c, with c alphanumeric or not, and a stub whose last character alone is
\* not alphanumeric.
StubOf(n, c) == [i \in 1..n |-> c]
BoundaryStubs ==
    { StubOf(n, c) : n \in { 0, MinStubLength - 1, MinStubLength, MaxStubLength,
                            MaxStubLength + 1 },
                     c \in { "A", "B", "-" } }
    \cup { [i \in 1..MinStubLength |-> IF i = MinStubLength THEN "-" ELSE "A"] }

\* The result of findUnique when no row matches (null).
NoMessage == [id |-> 0, stub |-> EmptyStub, content |-> EmptyString, readAt |-> NULL]
Row(id, stub, content, readAt) ==
    [id |-> id, stub |-> stub, content |-> content, readAt |-> readAt]

\* validateMessage's `errors` object.
NoErrors == [content |-> <<>>, stub |-> <<>>]

\* A response not yet sent, and the responses of the three handlers.
NoResp == [status |-> 0, error |-> "", message |-> EmptyString, readAt |-> NULL,
           stub |-> EmptyStub, errors |-> NoErrors, success |-> FALSE]
Resp500 == [NoResp EXCEPT !.status = 500, !.error = "An unexpected error has occurred"]
\* Variant with a fault: a missing message is answered like any other failure.
Resp404_AsServerError ==
    [NoResp EXCEPT !.status = 500, !.error = "An unexpected error has occurred"]
Resp404 == [NoResp EXCEPT !.status = 404, !.error = "Message not found"]
RespMessage(m) == [NoResp EXCEPT !.status = 200, !.message = m.content, !.readAt = m.readAt]
RespSuccess == [NoResp EXCEPT !.status = 200, !.success = TRUE]
RespStub(m) == [NoResp EXCEPT !.status = 200, !.stub = m.stub]
Resp422(errors) == [NoResp EXCEPT !.status = 422, !.errors = errors]

\* ------------------------------------------------------------------- state
VARIABLES
    store,   \* the rows of table "Message"
    nextId,  \* the next primary key the store assigns
    now,     \* the last value the clock returned
    req,     \* the requests: handler, position and local variables of each
    client   \* a browser running src/lib/crypto: its calls and their results

vars == <<store, nextId, now, req, client>>

Reqs == 1..MaxReq

IdleReq == [kind |-> "none", pc |-> "idle", stub |-> EmptyStub, content |-> EmptyString,
            message |-> NoMessage, retry |-> 0, error |-> "none", resp |-> NoResp]

InFlight(p) == req[p].pc \notin {"idle", "done", "aborted"}

\* A CipherObject, and the outcome of decrypt: the string it returns or the
\* name of the error it throws.
NoEnvelope == [data |-> <<>>, iv |-> <<>>, salt |-> <<>>]
NoResult == [ok |-> FALSE, error |-> "", text |-> <<>>, calls |-> {}]
\* The browser before any call: `sealed` is what AES-GCM has encrypted so far.
\* useState's `error`: null, or a string.
NoError == <<>>
\* useState's `message` of the message page: null, or an object with a
\* decrypted content or with the readAt of the response.
NoPageMessage == [set |-> FALSE, content |-> <<>>, readAt |-> NULL]
\* The message page when it mounts: `hash` is the fragment of its URL without
\* the '#', `response` the response fetch resolved with, `data` the text
\* JSON.parse was given, `thrown` the name of the error its catch block caught.
IdleView == [pc |-> "mounted", hash |-> <<>>, key |-> <<>>, error |-> NoError,
             loading |-> TRUE, message |-> NoPageMessage, response |-> NoResp,
             data |-> EmptyString, thrown |-> "", result |-> NoResult]
\* The creation page before a submission: `stub` is null or the share URL's
\* two parts, `body` the body of its request and `response` the response
\* fetch resolved with.
IdleSender == [pc |-> "form", error |-> NoError, isSubmitting |-> FALSE,
               stub |-> NULL, key |-> <<>>, body |-> EmptyString,
               response |-> NoResp]
IdleClient == [pc |-> "idle", plaintext |-> <<>>, password |-> <<>>,
               envelope |-> NoEnvelope, received |-> NoEnvelope,
               passwordUsed |-> <<>>, sealed |-> {}, result |-> NoResult,
               view |-> IdleView, sender |-> IdleSender]

\* ------------------------------------------------------------ store calls
\* prisma.message.findUnique({ where: { stub } })
FindUnique(rows, stub) ==
    IF \E m \in rows : m.stub = stub
    THEN CHOOSE m \in rows : m.stub = stub
    ELSE NoMessage

\* prisma.message.findMany({ select: { stub }, where: { stub: { in: candidates } } })
FindManyStubs(rows, candidates) ==
    { m.stub : m \in { r \in rows : \E i \in DOMAIN candidates : candidates[i] = r.stub } }

\* The rows the server may hold when it starts serving.
InitStores ==
    { {},
      { Row(1, [i \in 1..StubLength |-> "A"], Str("hello", 5), NULL) },
      { Row(1, [i \in 1..StubLength |-> "A"], SENTINEL, Date(0)) } }

Init ==
    /\ store \in InitStores
    /\ nextId = Cardinality(store) + 1
    /\ now = 0
    /\ req = [p \in Reqs |-> IdleReq]
    /\ client = IdleClient

\* Requests take the slots in order.
NextSlot(p) ==
    /\ req[p].pc = "idle"
    /\ \A q \in Reqs : q < p => req[q].pc # "idle"

\* The handler returns its response; generateUniqueStub's loop counter is gone.
Finish(p, r, resp) == [r EXCEPT !.pc = "done", !.retry = 0, !.resp = resp]

\* ------------------------------------------------- GET /api/message/[stub]
\* A request enters its handler with its first store call: the handlers run
\* no code of their own before it.
Arrive(kind, stub, content) ==
    [IdleReq EXCEPT !.kind = kind, !.stub = stub, !.content = content]

\* GET up to its first await: getMessage(params.stub), then the 404 branch.
GetMessage(p, stub, fails) ==
    /\ NextSlot(p)
    /\ LET message == FindUnique(store, stub)
           r == Arrive("GET", stub, EmptyString)
       IN req' = [req EXCEPT ![p] =
                    IF fails THEN Finish(p, [r EXCEPT !.error = "StoreError"], Resp500)
                    ELSE IF message = NoMessage THEN Finish(p, r, Resp404)
                    ELSE [r EXCEPT !.message = message, !.pc = "markFind"]]
    /\ UNCHANGED <<store, nextId, now>>
    /\ UNCHANGED client

\* Variant with a fault: markMessageAsRead always returns early and never consumes.
AlreadyRead_Always(found) == TRUE

\* markMessageAsRead's early return: `!message || message.readAt`.
AlreadyRead(found) == found = NoMessage \/ found.readAt # NULL

\* markMessageAsRead: the findUnique and the early return.
MarkFind(p, fails) ==
    /\ req[p].kind = "GET" /\ req[p].pc = "markFind"
    /\ LET found == FindUnique(store, req[p].stub)
       IN req' = [req EXCEPT ![p] =
                    IF fails THEN Finish(p, [req[p] EXCEPT !.error = "StoreError"], Resp500)
                    ELSE IF AlreadyRead(found)
                         THEN Finish(p, req[p], RespMessage(req[p].message))
                    ELSE [req[p] EXCEPT !.pc = "markUpdate"]]
    /\ UNCHANGED <<store, nextId, now>>
    /\ UNCHANGED client

\* Variant with a fault: the update sets readAt and leaves the content in place.
MarkedAsRead_ReadAtOnly(m, t) == [m EXCEPT !.readAt = Date(t)]

\* The row prisma.message.update writes: content and readAt in one statement.
MarkedAsRead(m, t) == [m EXCEPT !.content = SENTINEL, !.readAt = Date(t)]

\* markMessageAsRead: prisma.message.update({ where: { stub }, data: ... }),
\* then the response of GET built from the row getMessage returned.
MarkUpdate(p, fails, t) ==
    /\ req[p].kind = "GET" /\ req[p].pc = "markUpdate"
    /\ t >= now
    /\ now' = t
    /\ LET found == FindUnique(store, req[p].stub)
       IN IF fails
          THEN /\ req' = [req EXCEPT ![p] =
                            Finish(p, [req[p] EXCEPT !.error = "StoreError"], Resp500)]
               /\ UNCHANGED store
          ELSE IF found = NoMessage
          THEN /\ req' = [req EXCEPT ![p] =
                            Finish(p, [req[p] EXCEPT !.error = "P2025"], Resp500)]
               /\ UNCHANGED store
          ELSE /\ store' = (store \ {found}) \cup {MarkedAsRead(found, t)}
               /\ req' = [req EXCEPT ![p] = Finish(p, req[p], RespMessage(req[p].message))]
    /\ UNCHANGED nextId
    /\ UNCHANGED client

\* ----------------------------------------------- DELETE /api/message/[stub]
\* Variant with a fault: the delete has lost its `where` and removes every row.
Deleted_All(rows, found) == {}

\* The table after prisma.message.delete({ where: { stub } }) removed `found`.
Deleted(rows, found) == rows \ {found}

\* DELETE: deleteMessage(params.stub), prisma.message.delete({ where: { stub } }).
DeleteMessage(p, stub, fails) ==
    /\ NextSlot(p)
    /\ LET found == FindUnique(store, stub)
           r == Arrive("DELETE", stub, EmptyString)
       IN IF fails
          THEN /\ req' = [req EXCEPT ![p] =
                            Finish(p, [r EXCEPT !.error = "StoreError"], Resp500)]
               /\ UNCHANGED store
          ELSE IF found = NoMessage
          THEN /\ req' = [req EXCEPT ![p] = Finish(p, [r EXCEPT !.error = "P2025"], Resp500)]
               /\ UNCHANGED store
          ELSE /\ store' = Deleted(store, found)
               /\ req' = [req EXCEPT ![p] = Finish(p, r, RespSuccess)]
    /\ UNCHANGED <<nextId, now>>
    /\ UNCHANGED client

\* ------------------------------------------------------ POST /api/message
\* POST up to its first await: request.text() yields the body.
ReadBody(p, content) ==
    /\ NextSlot(p)
    /\ req' = [req EXCEPT ![p] =
                 [Arrive("POST", EmptyStub, content) EXCEPT !.pc = "generate"]]
    /\ UNCHANGED <<store, nextId, now>>
    /\ UNCHANGED client

\* generateUniqueStub: the first candidate of the batch that is not in stubSet.
RECURSIVE FirstUntakenFrom(_, _, _)
FirstUntakenFrom(candidates, stubSet, i) ==
    IF i > Len(candidates) THEN [found |-> FALSE, stub |-> EmptyStub]
    ELSE IF candidates[i] \notin stubSet THEN [found |-> TRUE, stub |-> candidates[i]]
    ELSE FirstUntakenFrom(candidates, stubSet, i + 1)

\* Variant with a fault: the first candidate is returned without the lookup
\* in stubSet.
FirstUntaken_Unprobed(candidates, stubSet) == [found |-> TRUE, stub |-> candidates[1]]

FirstUntaken(candidates, stubSet) == FirstUntakenFrom(candidates, stubSet, 1)

\* Variant with a fault: the loop test is `retry <= retries`.
LoopContinues_OneMore(retry) == retry <= Retries

\* generateUniqueStub's loop test: `retry < retries`.
LoopContinues(retry) == retry < Retries

\* One pass of generateUniqueStub's retry loop: a batch of candidates, the
\* findMany probe, and the return or the next retry.  After the last retry
\* generateUniqueStub returns null and createMessage continues with ''.
Generate(p, fails, candidates) ==
    /\ req[p].kind = "POST" /\ req[p].pc = "generate"
    /\ LoopContinues(req[p].retry)
    /\ LET first == FirstUntaken(candidates, FindManyStubs(store, candidates))
       IN req' = [req EXCEPT ![p] =
                    IF fails THEN Finish(p, [req[p] EXCEPT !.error = "StoreError"], Resp500)
                    ELSE IF first.found
                         THEN [req[p] EXCEPT !.retry = 0, !.stub = first.stub,
                                             !.pc = "validate"]
                    ELSE IF LoopContinues(req[p].retry + 1)
                         THEN [req[p] EXCEPT !.retry = req[p].retry + 1]
                    ELSE [req[p] EXCEPT !.retry = 0, !.stub = EmptyStub, !.pc = "validate"]]
    /\ UNCHANGED <<store, nextId, now>>
    /\ UNCHANGED client

\* Variant with a fault: the pattern is anchored, /^[^a-zA-Z0-9]/.
HasNonAlphanumeric_Anchored(stub) == stub # EmptyStub /\ stub[1] \notin Characters

\* data.stub.match(/[^a-zA-Z0-9]/)
HasNonAlphanumeric(stub) == \E i \in DOMAIN stub : stub[i] \notin Characters

\* Variant with a fault: the length test is `>=`.
TooLong_Inclusive(content) == content.length >= MaxContentLength

\* data.content.length > 10_000
TooLong(content) == content.length > MaxContentLength

\* validateMessage: the `errors` object it builds.
ValidationErrors(content, stub, rows) ==
    [content |->
        (IF content = EmptyString THEN <<"Content is required">> ELSE <<>>)
        \o (IF TooLong(content) THEN <<"Content is too long">> ELSE <<>>),
     stub |->
        (IF stub = EmptyStub THEN <<"Stub is required">> ELSE <<>>)
        \o (IF Len(stub) < MinStubLength \/ Len(stub) > MaxStubLength
            THEN <<"Stub must be between 8 and 32 characters">> ELSE <<>>)
        \o (IF FindUnique(rows, stub) # NoMessage
            THEN <<"Stub must be unique">> ELSE <<>>)
        \o (IF HasNonAlphanumeric(stub)
            THEN <<"Stub must be alphanumeric">> ELSE <<>>)]

\* Variant with a fault: only the first field's list is tested.
HasErrors_ContentOnly(errors) == Len(errors.content) > 0

\* Object.values(errors).some((error) => error.length > 0)
HasErrors(errors) == Len(errors.content) > 0 \/ Len(errors.stub) > 0

\* validateMessage({ content, stub }) and, when it throws, POST's 422 branch.
Validate(p, fails) ==
    /\ req[p].kind = "POST" /\ req[p].pc = "validate"
    /\ LET errors == ValidationErrors(req[p].content, req[p].stub, store)
       IN req' = [req EXCEPT ![p] =
                    IF fails THEN Finish(p, [req[p] EXCEPT !.error = "StoreError"], Resp500)
                    ELSE IF HasErrors(errors)
                         THEN Finish(p, [req[p] EXCEPT !.error = "ModelValidationError"],
                                     Resp422(errors))
                    ELSE [req[p] EXCEPT !.pc = "create"]]
    /\ UNCHANGED <<store, nextId, now>>
    /\ UNCHANGED client

\* Variant with a fault: the table has no unique index on "stub".
UniqueViolation_NoIndex(rows, stub) == FALSE

\* CREATE UNIQUE INDEX "Message_stub_key" ON "Message"("stub"): an insert of a
\* stub that a row already has is rejected (P2002).
UniqueViolation(rows, stub) == \E m \in rows : m.stub = stub

\* Variant with a fault: the insert replaces the table's rows.
Inserted_Replacing(rows, message) == {message}

\* The table after prisma.message.create inserted `message`.
Inserted(rows, message) == rows \cup {message}

\* prisma.message.create({ data: { content, stub } }) under the unique index
\* on "stub", then POST's response.
Create(p, fails) ==
    /\ req[p].kind = "POST" /\ req[p].pc = "create"
    /\ LET message == Row(nextId, req[p].stub, req[p].content, NULL)
       IN IF fails
          THEN /\ req' = [req EXCEPT ![p] =
                            Finish(p, [req[p] EXCEPT !.error = "StoreError"], Resp500)]
               /\ UNCHANGED <<store, nextId>>
          ELSE IF UniqueViolation(store, req[p].stub)
          THEN /\ req' = [req EXCEPT ![p] =
                            Finish(p, [req[p] EXCEPT !.error = "P2002"], Resp500)]
               /\ UNCHANGED <<store, nextId>>
          ELSE /\ store' = Inserted(store, message)
               /\ nextId' = nextId + 1
               /\ req' = [req EXCEPT ![p] =
                            Finish(p, [req[p] EXCEPT !.message = message], RespStub(message))]
    /\ UNCHANGED now
    /\ UNCHANGED client

\* A request that is cancelled (timeout, client abort, process exit) while it
\* waits for a store call: it issues no further call and sends no response.
Abort(p) ==
    /\ InFlight(p)
    /\ req' = [req EXCEPT ![p] = [IdleReq EXCEPT !.kind = req[p].kind, !.pc = "aborted"]]
    /\ UNCHANGED <<store, nextId, now>>
    /\ UNCHANGED client

Next ==
    \E p \in Reqs :
        \/ \E stub \in RequestStubs, fails \in BOOLEAN : GetMessage(p, stub, fails)
        \/ \E fails \in BOOLEAN : MarkFind(p, fails)
        \/ \E fails \in BOOLEAN, t \in 0..MaxClock : MarkUpdate(p, fails, t)
        \/ \E stub \in RequestStubs, fails \in BOOLEAN : DeleteMessage(p, stub, fails)
        \/ \E content \in Contents : ReadBody(p, content)
        \/ \E candidates \in Batches : Generate(p, FALSE, candidates)
        \/ \E candidates \in {AnyBatch} : Generate(p, TRUE, candidates)
        \/ \E fails \in BOOLEAN : Validate(p, fails)
        \/ \E fails \in BOOLEAN : Create(p, fails)
        \/ Abort(p)

Spec == Init /\ [][Next]_vars

\* -------------------------------------------- retrievals that do not overlap
\* The same handlers under a schedule in which a GET runs alone: it starts
\* when no request is in flight, and no request starts while it is in flight.
Quiet == \A q \in Reqs : ~InFlight(q)
NoGetInFlight == \A q \in Reqs : InFlight(q) => req[q].kind # "GET"

NextIsolatedGet ==
    \E p \in Reqs :
        \/ Quiet /\ \E stub \in RequestStubs, fails \in BOOLEAN : GetMessage(p, stub, fails)
        \/ \E fails \in BOOLEAN : MarkFind(p, fails)
        \/ \E fails \in BOOLEAN, t \in 0..MaxClock : MarkUpdate(p, fails, t)
        \/ NoGetInFlight /\ \E stub \in RequestStubs, fails \in BOOLEAN :
              DeleteMessage(p, stub, fails)
        \/ NoGetInFlight /\ \E content \in Contents : ReadBody(p, content)
        \/ \E candidates \in Batches : Generate(p, FALSE, candidates)
        \/ \E candidates \in {AnyBatch} : Generate(p, TRUE, candidates)
        \/ \E fails \in BOOLEAN : Validate(p, fails)
        \/ \E fails \in BOOLEAN : Create(p, fails)
        \/ Abort(p)

SpecIsolatedGet == Init /\ [][NextIsolatedGet]_vars

\* ------------------------------------------- creations and deletions alone
\* The handlers that read or change the set of stored stubs (POST and DELETE),
\* for MaxCreateReq requests and with bodies at the length limits:
\* generateUniqueStub's passes and validateMessage's lookup interleave with
\* the inserts and deletes of the other request.
NextCreateMessage ==
    \E p \in 1..MaxCreateReq :
        \/ \E stub \in RequestStubs, fails \in BOOLEAN : DeleteMessage(p, stub, fails)
        \/ \E content \in BoundaryContents : ReadBody(p, content)
        \/ \E candidates \in Batches : Generate(p, FALSE, candidates)
        \/ \E candidates \in {AnyBatch} : Generate(p, TRUE, candidates)
        \/ \E fails \in BOOLEAN : Validate(p, fails)
        \/ \E fails \in BOOLEAN : Create(p, fails)
        \/ Abort(p)

SpecCreateMessage == Init /\ [][NextCreateMessage]_vars

\* ------------------------------------------------- validateMessage by itself
\* A call validateMessage(data) with any data: the caller holds `data` and the
\* call is about to run.
ValidateCall(content, stub) ==
    [IdleReq EXCEPT !.kind = "validateMessage", !.pc = "validate",
                    !.content = content, !.stub = stub]

InitValidateMessage ==
    /\ store \in InitStores
    /\ nextId = Cardinality(store) + 1
    /\ now = 0
    /\ \E content \in BoundaryContents, stub \in BoundaryStubs :
          req = [p \in Reqs |-> IF p = 1 THEN ValidateCall(content, stub) ELSE IdleReq]
    /\ client = IdleClient

\* validateMessage(data): it returns, or throws ModelValidationError carrying
\* `errors` (kept in resp.errors; no response is sent), or the findUnique fails.
ValidateMessage(p, fails) ==
    /\ req[p].kind = "validateMessage" /\ req[p].pc = "validate"
    /\ LET errors == ValidationErrors(req[p].content, req[p].stub, store)
       IN req' = [req EXCEPT ![p] =
                    IF fails THEN Finish(p, [req[p] EXCEPT !.error = "StoreError"], NoResp)
                    ELSE IF HasErrors(errors)
                         THEN Finish(p, [req[p] EXCEPT !.error = "ModelValidationError"],
                                     [NoResp EXCEPT !.errors = errors])
                    ELSE Finish(p, req[p], NoResp)]
    /\ UNCHANGED <<store, nextId, now>>
    /\ UNCHANGED client

NextValidateMessage == \E p \in Reqs, fails \in BOOLEAN : ValidateMessage(p, fails)

SpecValidateMessage == InitValidateMessage /\ [][NextValidateMessage]_vars

\* =========================================================== src/lib/crypto
\* A JavaScript string is a sequence of UTF-16 code units, a buffer a sequence
\* of bytes, and a base64 text a sequence of one-character strings.

\* ----------------------------------------------------- TextEncoder.encode
IsHighSurrogate(u) == u >= 55296 /\ u <= 56319
IsLowSurrogate(u) == u >= 56320 /\ u <= 57343

\* The UTF-8 bytes of a code point.
Utf8Bytes(cp) ==
    IF cp < 128 THEN <<cp>>
    ELSE IF cp < 2048 THEN <<192 + (cp \div 64), 128 + (cp % 64)>>
    ELSE IF cp < 65536
         THEN <<224 + (cp \div 4096), 128 + ((cp \div 64) % 64), 128 + (cp % 64)>>
    ELSE <<240 + (cp \div 262144), 128 + ((cp \div 4096) % 64),
           128 + ((cp \div 64) % 64), 128 + (cp % 64)>>

\* U+FFFD, which replaces what cannot be encoded or decoded.
ReplacementCharacter == 65533

\* encoder.encode(text): surrogate pairs become one code point, a surrogate
\* without its partner becomes U+FFFD.
RECURSIVE EncodeFrom(_, _)
EncodeFrom(text, i) ==
    IF i > Len(text) THEN <<>>
    ELSE IF IsHighSurrogate(text[i]) /\ i < Len(text) /\ IsLowSurrogate(text[i + 1])
         THEN Utf8Bytes(65536 + (text[i] - 55296) * 1024 + (text[i + 1] - 56320))
              \o EncodeFrom(text, i + 2)
    ELSE IF IsHighSurrogate(text[i]) \/ IsLowSurrogate(text[i])
         THEN Utf8Bytes(ReplacementCharacter) \o EncodeFrom(text, i + 1)
    ELSE Utf8Bytes(text[i]) \o EncodeFrom(text, i + 1)

Encode(text) == EncodeFrom(text, 1)

\* ----------------------------------------------------- TextDecoder.decode
\* The code units of a code point.
CodeUnits(cp) ==
    IF cp < 65536 THEN <<cp>>
    ELSE <<55296 + ((cp - 65536) \div 1024), 56320 + ((cp - 65536) % 1024)>>

\* How many continuation bytes a lead byte announces (0 for a byte that is
\* not a lead byte of a multi-byte sequence).
Needed(b) ==
    IF b >= 194 /\ b <= 223 THEN 1
    ELSE IF b >= 224 /\ b <= 239 THEN 2
    ELSE IF b >= 240 /\ b <= 244 THEN 3
    ELSE 0

\* The range of the first continuation byte after lead byte b.
LowerBoundary(b) == IF b = 224 THEN 160 ELSE IF b = 240 THEN 144 ELSE 128
UpperBoundary(b) == IF b = 237 THEN 159 ELSE IF b = 244 THEN 143 ELSE 191

\* The number of well-formed continuation bytes that follow the lead byte at i.
RECURSIVE Continuations(_, _, _)
Continuations(bytes, i, k) ==
    IF k > Needed(bytes[i]) \/ i + k > Len(bytes) THEN k - 1
    ELSE LET c == bytes[i + k]
             lo == IF k = 1 THEN LowerBoundary(bytes[i]) ELSE 128
             hi == IF k = 1 THEN UpperBoundary(bytes[i]) ELSE 191
         IN IF c >= lo /\ c <= hi THEN Continuations(bytes, i, k + 1) ELSE k - 1

\* The code point of the well-formed sequence of n + 1 bytes at i.
RECURSIVE Payload(_, _, _)
Payload(bytes, i, n) ==
    IF n = 0 THEN 0 ELSE Payload(bytes, i, n - 1) * 64 + (bytes[i + n] % 64)

SequenceCodePoint(bytes, i, n) ==
    LET lead == IF n = 1 THEN bytes[i] % 32 ELSE IF n = 2 THEN bytes[i] % 16 ELSE bytes[i] % 8
        scale == IF n = 1 THEN 64 ELSE IF n = 2 THEN 4096 ELSE 262144
    IN lead * scale + Payload(bytes, i, n)

\* The decoder without `fatal`: a malformed sequence becomes U+FFFD and
\* decoding goes on at the byte that broke it.
RECURSIVE DecodeFrom(_, _)
DecodeFrom(bytes, i) ==
    IF i > Len(bytes) THEN <<>>
    ELSE IF bytes[i] < 128 THEN <<bytes[i]>> \o DecodeFrom(bytes, i + 1)
    ELSE IF Needed(bytes[i]) = 0 THEN <<ReplacementCharacter>> \o DecodeFrom(bytes, i + 1)
    ELSE LET n == Needed(bytes[i])
             k == Continuations(bytes, i, 1)
         IN IF k = n
            THEN CodeUnits(SequenceCodePoint(bytes, i, n)) \o DecodeFrom(bytes, i + n + 1)
            ELSE <<ReplacementCharacter>> \o DecodeFrom(bytes, i + k + 1)

\* decoder.decode(buffer) of `new TextDecoder()`: UTF-8, not fatal, and a
\* leading byte order mark (EF BB BF) is dropped.
Decode(bytes) ==
    IF Len(bytes) >= 3 /\ bytes[1] = 239 /\ bytes[2] = 187 /\ bytes[3] = 191
    THEN DecodeFrom(bytes, 4)
    ELSE DecodeFrom(bytes, 1)

\* ------------------------------------------------------------ btoa, atob
\* The base64 alphabet: the character of each 6-bit value, from 0.
Base64Alphabet ==
    << "A","B","C","D","E","F","G","H","I","J","K","L","M",
       "N","O","P","Q","R","S","T","U","V","W","X","Y","Z",
       "a","b","c","d","e","f","g","h","i","j","k","l","m",
       "n","o","p","q","r","s","t","u","v","w","x","y","z",
       "0","1","2","3","4","5","6","7","8","9","+","/" >>
Base64Char(v) == Base64Alphabet[v + 1]
IsBase64Char(c) == \E i \in 1..Len(Base64Alphabet) : Base64Alphabet[i] = c
Base64Value(c) == (CHOOSE i \in 1..Len(Base64Alphabet) : Base64Alphabet[i] = c) - 1

\* arrayBufferToBase64: btoa of the bytes, three bytes to four characters,
\* the last group padded with '='.
RECURSIVE BtoaFrom(_, _)
BtoaFrom(bytes, i) ==
    IF i > Len(bytes) THEN <<>>
    ELSE IF i = Len(bytes)
         THEN <<Base64Char(bytes[i] \div 4), Base64Char((bytes[i] % 4) * 16), "=", "=">>
    ELSE IF i + 1 = Len(bytes)
         THEN <<Base64Char(bytes[i] \div 4),
                Base64Char((bytes[i] % 4) * 16 + (bytes[i + 1] \div 16)),
                Base64Char((bytes[i + 1] % 16) * 4), "=">>
    ELSE <<Base64Char(bytes[i] \div 4),
           Base64Char((bytes[i] % 4) * 16 + (bytes[i + 1] \div 16)),
           Base64Char((bytes[i + 1] % 16) * 4 + (bytes[i + 2] \div 64)),
           Base64Char(bytes[i + 2] % 64)>>
         \o BtoaFrom(bytes, i + 3)

arrayBufferToBase64(buffer) == BtoaFrom(buffer, 1)

\* atob's first steps: ASCII whitespace is removed, then one or two '=' at
\* the end of a text whose length is a multiple of four.
IsWhitespace(c) == c \in {" "}
WithoutWhitespace(text) == SelectSeq(text, LAMBDA c : ~IsWhitespace(c))
WithoutPadding(text) ==
    LET n == Len(text)
    IN IF n % 4 # 0 \/ n = 0 \/ text[n] # "=" THEN text
       ELSE IF text[n - 1] = "=" THEN SubSeq(text, 1, n - 2)
       ELSE SubSeq(text, 1, n - 1)

\* atob's decoding of the characters left: four characters to three bytes; of
\* a last group of two or three characters the bits that fill no byte are
\* dropped, whatever they are.
RECURSIVE AtobFrom(_, _)
AtobFrom(text, i) ==
    LET v(k) == Base64Value(text[i + k])
    IN IF i > Len(text) THEN <<>>
       ELSE IF i + 1 = Len(text) THEN <<v(0) * 4 + (v(1) \div 16)>>
       ELSE IF i + 2 = Len(text)
            THEN <<v(0) * 4 + (v(1) \div 16), (v(1) % 16) * 16 + (v(2) \div 4)>>
       ELSE <<v(0) * 4 + (v(1) \div 16), (v(1) % 16) * 16 + (v(2) \div 4),
              (v(2) % 4) * 64 + v(3)>>
            \o AtobFrom(text, i + 4)

\* base64ToArrayBuffer: atob(base64), which throws InvalidCharacterError for
\* a text that is not base64, and the bytes of the binary string it returns.
base64ToArrayBuffer(base64) ==
    LET text == WithoutPadding(WithoutWhitespace(base64))
    IN IF Len(text) % 4 = 1 \/ \E i \in 1..Len(text) : ~IsBase64Char(text[i])
       THEN [ok |-> FALSE, bytes |-> <<>>]
       ELSE [ok |-> TRUE, bytes |-> AtobFrom(text, 1)]

\* ------------------------------------------------- deriveKey and AES-GCM
\* The key HMAC works with: its key padded with zero bytes to the block size,
\* so key bytes that differ only in zero bytes at the end are one key.
RECURSIVE HmacKey(_)
HmacKey(bytes) ==
    IF Len(bytes) > 0 /\ bytes[Len(bytes)] = 0
    THEN HmacKey(SubSeq(bytes, 1, Len(bytes) - 1))
    ELSE bytes

\* deriveKey(password, salt): PBKDF2 with HMAC-SHA-256 over the encoded
\* password and the salt; the key is known by what it was derived from.
deriveKey(password, salt) ==
    [password |-> HmacKey(Encode(password)), salt |-> salt, iterations |-> Iterations]

\* The bytes AES-GCM returns for a plaintext: as many bytes as the plaintext
\* and a tag of TagLength bytes.  The byte values stand for the cipher's
\* output; whether a text decrypts is decided by `sealed`, not by them.
Mask(key, iv) == (Len(key.password) + key.salt[1] + iv[1] + 1) % 256
Ciphertext(key, iv, bytes) ==
    [i \in 1..(Len(bytes) + TagLength) |->
        IF i <= Len(bytes) THEN (bytes[i] + Mask(key, iv)) % 256 ELSE Mask(key, iv)]

\* window.crypto.subtle.decrypt({ name: 'AES-GCM', iv }, key, data): the
\* plaintext of a ciphertext that was sealed under this key and iv, and
\* OperationError for every other input.
Open(sealed, key, iv, data) ==
    IF \E e \in sealed : e.key = key /\ e.iv = iv /\ e.ciphertext = data
    THEN [ok |-> TRUE,
          bytes |-> (CHOOSE e \in sealed :
                        e.key = key /\ e.iv = iv /\ e.ciphertext = data).plaintext]
    ELSE [ok |-> FALSE, bytes |-> <<>>]

\* ----------------------------------------------------- encrypt and decrypt
\* encrypt(data, password) with the salt and iv getRandomValues returned:
\* what AES-GCM sealed, and the CipherObject returned.
Sealed(data, password, salt, iv) ==
    LET key == deriveKey(password, salt)
    IN [key |-> key, iv |-> iv, plaintext |-> Encode(data),
        ciphertext |-> Ciphertext(key, iv, Encode(data))]

encrypt(data, password, salt, iv) ==
    [data |-> arrayBufferToBase64(Sealed(data, password, salt, iv).ciphertext),
     iv |-> arrayBufferToBase64(iv),
     salt |-> arrayBufferToBase64(salt)]

\* decrypt(data, password): the string returned, or the error thrown by atob
\* or by AES-GCM, and the calls made on the way: the three buffers are decoded
\* first, then deriveKey and subtle.decrypt are called whatever the lengths of
\* the decoded iv and salt.
decrypt(sealed, data, password) ==
    LET iv == base64ToArrayBuffer(data.iv)
        salt == base64ToArrayBuffer(data.salt)
        encryptedData == base64ToArrayBuffer(data.data)
        key == deriveKey(password, salt.bytes)
        decryptedContent == Open(sealed, key, iv.bytes, encryptedData.bytes)
    IN IF ~iv.ok \/ ~salt.ok \/ ~encryptedData.ok
       THEN [ok |-> FALSE, error |-> "InvalidCharacterError", text |-> <<>>,
             calls |-> {}]
       ELSE IF ~decryptedContent.ok
       THEN [ok |-> FALSE, error |-> "OperationError", text |-> <<>>,
             calls |-> {"deriveKey", "subtle.decrypt"}]
       ELSE [ok |-> TRUE, error |-> "", text |-> Decode(decryptedContent.bytes),
             calls |-> {"deriveKey", "subtle.decrypt"}]

\* The strings encrypt is called with: 'Hi', '', a byte order mark before and
\* after a letter, a two-byte character, a surrogate pair and a high
\* surrogate alone.
Plaintexts ==
    { <<72, 105>>, <<>>, <<65279, 72>>, <<72, 65279>>, <<233>>,
      <<55357, 56832>>, <<55357>> }
\* The passwords: 'k', 'j' and 'k' followed by U+0000.
Passwords == { <<107>>, <<106>>, <<107, 0>> }
\* The values getRandomValues may return: the same byte SaltLength or
\* IvLength times.
RandomBytes == { 0, 255 }
Salts == { [i \in 1..SaltLength |-> b] : b \in RandomBytes }
Ivs == { [i \in 1..IvLength |-> b] : b \in RandomBytes }
\* The characters a changed envelope field may hold in place of one of its own.
ChangedChars == { "A", "B", "Q", "/", "=", " ", "-" }
EnvelopeFields == { "data", "iv", "salt" }

\* The browser c after encrypt(data, password) returned.
Encrypted(c, data, password, salt, iv) ==
    [c EXCEPT
        !.pc = "encrypted", !.plaintext = data, !.password = password,
        !.envelope = encrypt(data, password, salt, iv),
        !.received = encrypt(data, password, salt, iv),
        !.sealed = c.sealed \cup {Sealed(data, password, salt, iv)}]

\* The browser calls encrypt(data, password).
Encrypt(data, password, salt, iv) ==
    /\ client.pc = "idle"
    /\ client' = Encrypted(client, data, password, salt, iv)
    /\ UNCHANGED <<store, nextId, now, req>>

\* On its way to the browser that decrypts, one character of one field of the
\* envelope is replaced by another.
Change(field, i, c) ==
    /\ client.pc = "encrypted"
    /\ i \in 1..Len(client.received[field])
    /\ client.received[field][i] # c
    /\ client' = [client EXCEPT
                    !.pc = "changed",
                    !.received = [client.received EXCEPT
                                    ![field] = [client.received[field] EXCEPT ![i] = c]]]
    /\ UNCHANGED <<store, nextId, now, req>>

\* The byte strings another holder of the password may have encrypted: a byte
\* that starts no UTF-8 sequence, an overlong sequence and the letter 'H'.
ForeignBytes == { <<255>>, <<192, 128>>, <<72>> }

\* The browser receives an envelope that was not made by encrypt: another
\* holder of the password encrypted bytes with AES-GCM under the derived key
\* and wrote the three fields in base64.
ReceiveForeign(bytes, password, salt, iv) ==
    /\ client.pc = "idle"
    /\ client' = [client EXCEPT
                    !.pc = "received", !.password = password,
                    !.received =
                        [data |-> arrayBufferToBase64(
                                      Ciphertext(deriveKey(password, salt), iv, bytes)),
                         iv |-> arrayBufferToBase64(iv),
                         salt |-> arrayBufferToBase64(salt)],
                    !.sealed = client.sealed \cup
                        {[key |-> deriveKey(password, salt), iv |-> iv,
                          plaintext |-> bytes,
                          ciphertext |-> Ciphertext(deriveKey(password, salt), iv, bytes)]}]
    /\ UNCHANGED <<store, nextId, now, req>>

\* The browser calls decrypt(data, password) on the envelope it received.
Decrypt(password) ==
    /\ client.pc \in {"encrypted", "changed", "received"}
    /\ client' = [client EXCEPT
                    !.pc = "decrypted", !.passwordUsed = password,
                    !.result = decrypt(client.sealed, client.received, password)]
    /\ UNCHANGED <<store, nextId, now, req>>

\* The server, idle and empty, and the browser before any call.
InitCrypto ==
    /\ store = {}
    /\ nextId = 1
    /\ now = 0
    /\ req = [p \in Reqs |-> IdleReq]
    /\ client = IdleClient

NextCrypto ==
    \/ \E data \in Plaintexts, password \in Passwords, salt \in Salts, iv \in Ivs :
          Encrypt(data, password, salt, iv)
    \/ \E field \in EnvelopeFields, c \in ChangedChars :
          \E i \in 1..Len(client.received[field]) : Change(field, i, c)
    \/ \E bytes \in ForeignBytes, password \in Passwords, salt \in Salts, iv \in Ivs :
          ReceiveForeign(bytes, password, salt, iv)
    \/ \E password \in Passwords : Decrypt(password)

SpecCrypto == InitCrypto /\ [][NextCrypto]_vars

\* ====================================================== app/[stub]/page.tsx
\* The message page: fetchData, run once when the page mounts, and what the
\* page renders from `error`, `loading` and `message`.

\* The texts the page sets itself.
NoKeyMessage == "No key provided"
UnexpectedErrorMessage == "An unexpected error has occurred"
\* The messages of the errors the platform throws: fetch's TypeError,
\* JSON.parse's SyntaxError, atob's InvalidCharacterError, the TypeError of
\* reading a property of undefined, and AES-GCM's OperationError, whose
\* message is empty in some browsers and not in others.
FailedToFetchMessage == "Failed to fetch"
SyntaxErrorMessage == "Unexpected token, is not valid JSON"
InvalidCharacterMessage == "The string to be decoded is not correctly encoded."
TypeErrorMessage == "Cannot read properties of undefined (reading 'iv')"
OperationErrorMessages == { "", "The operation failed for an operation-specific reason" }

\* The body the sender's page posts, JSON.stringify({ content: encryptedContent }),
\* and a body that is JSON without a `content`.
EnvelopeText == Str("{content:{data,iv,salt}}", 105)
EmptyObjectText == Str("{}", 2)
\* JSON.parse accepts the text.
IsJson(text) == text \in { EnvelopeText, EmptyObjectText }

\* The page's params.stub, the slot of its request and the rows the server
\* may hold when the page mounts.
ViewStub == [i \in 1..StubLength |-> "A"]
ViewRequest == 1
ViewStores ==
    { {},
      { Row(1, ViewStub, EnvelopeText, NULL) },
      { Row(1, ViewStub, EmptyObjectText, NULL) },
      { Row(1, ViewStub, Str("hello", 5), NULL) },
      { Row(1, ViewStub, SENTINEL, Date(0)) } }
\* The fragments of the page's URL: none, the key 'k' and another key 'j'.
ViewKeys == { <<>>, <<107>>, <<106>> }

\* Variant with a fault: the page fetches the message whether or not it has a key.
NoKey_Never(key) == FALSE

\* `!key`
NoKey(key) == key = <<>>
\* response.ok
Ok(response) == response.status \in 200..299

\* Variant with a fault: the page never takes a response for already read.
WasRead_Never(rawData) == FALSE

\* `rawData.readAt !== null`
WasRead(rawData) == rawData.readAt # NULL

\* The catch block, then finally.
Catch(view, name, message) ==
    [view EXCEPT !.thrown = name,
                 !.error = IF message # "" THEN <<message>>
                           ELSE <<UnexpectedErrorMessage>>,
                 !.loading = FALSE, !.pc = "done"]
\* Variant with a fault: setLoading(false) is skipped when try returns.
Return_KeepsLoading(view) == [view EXCEPT !.pc = "done"]

\* A return inside try, then finally.
Return(view) == [view EXCEPT !.loading = FALSE, !.pc = "done"]

\* fetchData up to its first await: the key is read; without a key the error
\* is set and nothing is fetched.
OpenPage ==
    /\ client.view.pc = "mounted"
    /\ LET key == client.view.hash
           view == [client.view EXCEPT !.key = key]
       IN client' = [client EXCEPT !.view =
                        IF NoKey(key)
                        THEN Return([view EXCEPT !.error = <<NoKeyMessage>>])
                        ELSE [view EXCEPT !.pc = "fetching"]]
    /\ UNCHANGED <<store, nextId, now, req>>

\* fetch rejects: the request or its response is lost.
FetchRejects ==
    /\ client.view.pc = "fetching"
    /\ client' = [client EXCEPT !.view =
                    Catch(client.view, "TypeError", FailedToFetchMessage)]
    /\ UNCHANGED <<store, nextId, now, req>>

\* The response has arrived: fetchData from response.json() to the call of
\* decrypt.
ReceiveResponse ==
    /\ client.view.pc = "fetching"
    /\ req[ViewRequest].pc = "done"
    /\ LET response == req[ViewRequest].resp
           view == [client.view EXCEPT !.response = response]
       IN client' = [client EXCEPT !.view =
            IF response.status = 404
            THEN Return([view EXCEPT !.error = <<response.error>>])
            ELSE IF ~Ok(response)
            THEN Catch(view, "Error", response.error)
            ELSE IF WasRead(response)
            THEN Return([view EXCEPT !.message =
                            [set |-> TRUE, content |-> <<>>,
                             readAt |-> response.readAt]])
            ELSE IF ~IsJson(response.message)
            THEN Catch([view EXCEPT !.data = response.message],
                       "SyntaxError", SyntaxErrorMessage)
            ELSE [view EXCEPT !.data = response.message, !.pc = "decrypting"]]
    /\ UNCHANGED <<store, nextId, now, req>>

\* The message of the error decrypt threw.
ErrorMessage(name, operationErrorMessage) ==
    IF name = "InvalidCharacterError" THEN InvalidCharacterMessage
    ELSE IF name = "TypeError" THEN TypeErrorMessage
    ELSE operationErrorMessage

\* decrypt(data.content, key) settles: the message is set, or the catch block
\* runs.
DecryptSettles(operationErrorMessage) ==
    /\ client.view.pc = "decrypting"
    /\ LET view == client.view
           result == IF view.data = EnvelopeText
                     THEN decrypt(client.sealed, client.received, view.key)
                     ELSE [ok |-> FALSE, error |-> "TypeError", text |-> <<>>,
                           calls |-> {}]
       IN client' = [client EXCEPT !.view =
            IF result.ok
            THEN Return([view EXCEPT !.result = result,
                                     !.message = [set |-> TRUE,
                                                  content |-> result.text,
                                                  readAt |-> NULL]])
            ELSE Catch([view EXCEPT !.result = result], result.error,
                       ErrorMessage(result.error, operationErrorMessage))]
    /\ UNCHANGED <<store, nextId, now, req>>

\* What the page renders.
Rendered(view) ==
    IF view.loading THEN [shows |-> "loading", text |-> "", readAt |-> NULL]
    ELSE IF view.error # NoError /\ view.error[1] # ""
    THEN [shows |-> "error", text |-> view.error[1], readAt |-> NULL]
    ELSE IF view.message.set /\ view.message.readAt # NULL
    THEN [shows |-> "alreadyRead", text |-> "", readAt |-> view.message.readAt]
    ELSE [shows |-> "content", text |-> "", readAt |-> NULL]

\* The page mounts with one of the keys in its URL; the sender encrypted 'Hi'
\* with key 'k' before, and getRandomValues returned zero bytes.
InitViewPage ==
    /\ store \in ViewStores
    /\ nextId = Cardinality(store) + 1
    /\ now = 0
    /\ req = [p \in Reqs |-> IdleReq]
    /\ \E hash \in ViewKeys :
          client = [Encrypted(IdleClient, <<72, 105>>, <<107>>,
                              [i \in 1..SaltLength |-> 0], [i \in 1..IvLength |-> 0])
                        EXCEPT !.view = [IdleView EXCEPT !.hash = hash]]

NextViewPage ==
    \/ /\ client.view.pc = "mounted"
       /\ \E field \in EnvelopeFields, c \in ChangedChars :
             \E i \in {1, Len(client.received[field])} : Change(field, i, c)
    \/ OpenPage
    \/ /\ client.view.pc = "fetching"
       /\ \E fails \in BOOLEAN : GetMessage(ViewRequest, ViewStub, fails)
    \/ \E fails \in BOOLEAN : MarkFind(ViewRequest, fails)
    \/ \E fails \in BOOLEAN, t \in 0..MaxClock : MarkUpdate(ViewRequest, fails, t)
    \/ Abort(ViewRequest)
    \/ FetchRejects
    \/ ReceiveResponse
    \/ \E operationErrorMessage \in OperationErrorMessages :
          DecryptSettles(operationErrorMessage)

SpecViewPage == InitViewPage /\ [][NextViewPage]_vars

\* The effect runs once the page has mounted, and the promises fetchData
\* awaits settle: fetch resolves with the response or rejects, and decrypt
\* returns or throws.
SpecViewPageFair ==
    /\ SpecViewPage
    /\ WF_vars(OpenPage)
    /\ WF_vars(FetchRejects \/ ReceiveResponse)
    /\ WF_vars(\E operationErrorMessage \in OperationErrorMessages :
                  DecryptSettles(operationErrorMessage))

\* ======================================================= the creation page
\* The creation page: handleSubmit, and what the page renders from `error`
\* and `stub`.

\* The texts the page sets itself.
ContentRequiredMessage == "Content is required"
UnexpectedServerErrorMessage == "Unexpected server error"

\* What the textarea may hold: nothing, two spaces, 'Hi', and a text of 7500
\* characters, whose envelope is longer than the server accepts.
SenderContents ==
    { EmptyString, Str("  ", 2), Str("Hi", 2), Str("a long text", 7500) }
\* `content.trim() === ''`
IsBlank(content) == content \in { EmptyString, Str("  ", 2) }
\* JSON.stringify({ content: encryptedContent }): 81 characters around the
\* base64 text of the ciphertext and its tag.
SenderBody(content) ==
    Str("{content:{data,iv,salt}}", 81 + 4 * ((content.length + TagLength + 2) \div 3))
\* generateRandomString(12), here always the key 'k', and the slot of the
\* page's request.
SenderKey == <<107>>
SenderRequest == 1

\* errors.content.join(', ')
RECURSIVE Join(_)
Join(list) ==
    IF list = <<>> THEN ""
    ELSE IF Len(list) = 1 THEN list[1]
    ELSE list[1] \o ", " \o Join(Tail(list))

\* handleSubmit up to the await of fetch: blank content sets the error and
\* returns; other content is encrypted and posted.
HandleSubmit(content) ==
    /\ client.sender.pc = "form"
    /\ client' = [client EXCEPT !.sender =
                    IF IsBlank(content)
                    THEN [client.sender EXCEPT !.error = <<ContentRequiredMessage>>,
                                               !.pc = "done"]
                    ELSE [client.sender EXCEPT !.key = SenderKey,
                                               !.body = SenderBody(content),
                                               !.error = NoError, !.isSubmitting = TRUE,
                                               !.stub = NULL, !.pc = "posting"]]
    /\ UNCHANGED <<store, nextId, now, req>>

\* fetch rejects: the catch block, then finally.
SubmitRejects ==
    /\ client.sender.pc = "posting"
    /\ client' = [client EXCEPT !.sender =
                    [client.sender EXCEPT !.error = <<FailedToFetchMessage>>,
                                          !.isSubmitting = FALSE, !.pc = "done"]]
    /\ UNCHANGED <<store, nextId, now, req>>

\* The response has arrived: the three branches of handleSubmit, then finally.
SubmitResponds ==
    /\ client.sender.pc = "posting"
    /\ req[SenderRequest].pc = "done"
    /\ LET response == req[SenderRequest].resp
           sender == [client.sender EXCEPT !.response = response,
                                           !.isSubmitting = FALSE, !.pc = "done"]
       IN client' = [client EXCEPT !.sender =
            IF Ok(response)
            THEN [sender EXCEPT !.stub = <<response.stub, sender.key>>]
            ELSE IF response.status >= 400 /\ response.status < 500
            THEN [sender EXCEPT !.error = <<Join(response.errors.content)>>]
            ELSE [sender EXCEPT !.error = <<UnexpectedServerErrorMessage>>]]
    /\ UNCHANGED <<store, nextId, now, req>>

\* What the creation page renders.
RenderedSender(sender) ==
    IF sender.stub # NULL THEN [shows |-> "link", text |-> ""]
    ELSE IF sender.error # NoError /\ sender.error[1] # ""
    THEN [shows |-> "form", text |-> sender.error[1]]
    ELSE [shows |-> "form", text |-> ""]

NextSenderPage ==
    \/ \E content \in SenderContents : HandleSubmit(content)
    \/ /\ client.sender.pc = "posting"
       /\ ReadBody(SenderRequest, client.sender.body)
    \/ \E candidates \in Batches : Generate(SenderRequest, FALSE, candidates)
    \/ \E candidates \in {AnyBatch} : Generate(SenderRequest, TRUE, candidates)
    \/ \E fails \in BOOLEAN : Validate(SenderRequest, fails)
    \/ \E fails \in BOOLEAN : Create(SenderRequest, fails)
    \/ Abort(SenderRequest)
    \/ SubmitRejects
    \/ SubmitResponds

SpecSenderPage == Init /\ [][NextSenderPage]_vars

\* ================================================================== claims
\* Request p arrives (takes its first step) in this step, as a `kind` request.
Arrives(p, kind) == req[p].pc = "idle" /\ req'[p].kind = kind
\* Request p takes a step.
Steps(p) == req'[p] # req[p]
\* Request p sends its response in this step.
Responds(p) == req[p].pc # "done" /\ req'[p].pc = "done"
\* POST request c has inserted its message and answered with the stub.
Created(c) == req[c].kind = "POST" /\ req[c].pc = "done" /\ req[c].resp.status = 200
\* GET request p has answered 200 with the row `id` it read in getMessage.
Retrieved(p, id) ==
    /\ req[p].kind = "GET" /\ req[p].pc = "done"
    /\ req[p].resp.status = 200 /\ req[p].message.id = id
Delivered(p) == req[p].resp.readAt = NULL
SawConsumed(p) == req[p].resp.message = SENTINEL /\ req[p].resp.readAt # NULL

\* C1: of the GET retrievals of one created message that have answered, when
\* there are two or more, exactly one carries the original content with readAt
\* null and every other carries the sentinel with a non-null readAt.
C1_ExactlyOneDelivery ==
    \A c \in Reqs : Created(c) =>
        LET G == { p \in Reqs : Retrieved(p, req[c].message.id) }
        IN Cardinality(G) >= 2 =>
             \E p \in G :
                /\ req[p].resp.message = req[c].content /\ Delivered(p)
                /\ \A q \in G \ {p} : SawConsumed(q)

\* C2: when GET retrievals run one at a time with no other request in flight,
\* the first response for a created message carries the content submitted at
\* creation with readAt null, and every later response carries the sentinel
\* with a non-null readAt.
C2_FirstThenSentinel ==
    [][\A p, c \in Reqs :
         (Responds(p) /\ Created(c) /\ Retrieved(p, req[c].message.id)')
         => IF \E q \in Reqs \ {p} : Retrieved(q, req[c].message.id)
            THEN SawConsumed(p)'
            ELSE req'[p].resp.message = req[c].content /\ Delivered(p)']_vars

C2_Witness ==
    \E c, p, q \in Reqs :
        /\ p # q /\ Created(c) /\ req[c].content # SENTINEL
        /\ Retrieved(p, req[c].message.id) /\ Retrieved(q, req[c].message.id)
        /\ req[p].resp.message = req[c].content /\ Delivered(p)
        /\ SawConsumed(q)

\* C3: once a row's readAt is set it is never written again.
C3_ReadAtWrittenOnce ==
    [][\A m \in store : m.readAt # NULL =>
         \A n \in store' : n.id = m.id => n.readAt = m.readAt]_vars

\* A step leaves a row's content and readAt as they are, or it is the consume
\* update of that row.
StepUpdatesTogether ==
    \A m \in store : \A n \in store' : n.id = m.id =>
        \/ n.content = m.content /\ n.readAt = m.readAt
        \/ n.content = SENTINEL /\ n.readAt # NULL

\* C4: a row's content and readAt change only together, in the consume update,
\* also when requests are cancelled or store calls fail between steps: no row
\* has readAt set with other content than the sentinel, and no step changes
\* one of the two fields and leaves the row unread.
C4_UpdatedTogether ==
    /\ [](\A m \in store : m.readAt # NULL => m.content = SENTINEL)
    /\ [][StepUpdatesTogether]_vars

C4_Witness ==
    \E m \in store, p, q \in Reqs :
        /\ m.readAt # NULL /\ m.content = SENTINEL
        /\ req[p].kind = "GET" /\ req[p].pc = "aborted"
        /\ req[q].kind = "GET" /\ req[q].pc = "done" /\ req[q].stub = m.stub
        /\ req[q].error = "StoreError" /\ req[q].message.id = m.id

\* C5: a step of a GET whose getMessage read a consumed row (readAt non-null)
\* changes no row, and its response carries the content and readAt it read.
C5_ConsumedGetHasNoEffect ==
    [][\A p \in Reqs :
         (req[p].kind = "GET" /\ InFlight(p) /\ req[p].message.readAt # NULL /\ Steps(p))
         => /\ store' = store
            /\ (Responds(p) /\ req'[p].error = "none")
                 => req'[p].resp = RespMessage(req[p].message)]_vars

\* C6: a GET whose lookup finds no row answers 404 'Message not found' with no
\* content and changes no row; every GET that ends in another failure answers
\* 500, and only the missing row answers 404.
C6_NotFound ==
    [][\A p \in Reqs :
         /\ (Arrives(p, "GET") /\ req'[p].error = "none"
               /\ FindUnique(store, req'[p].stub) = NoMessage)
            => /\ req'[p].pc = "done"
               /\ req'[p].resp.status = 404
               /\ req'[p].resp.message = EmptyString /\ req'[p].resp.readAt = NULL
               /\ store' = store
         /\ (req'[p].kind = "GET" /\ Responds(p))
            => /\ req'[p].error # "none" => req'[p].resp.status = 500
               /\ req'[p].resp.status = 404
                    => Arrives(p, "GET") /\ FindUnique(store, req'[p].stub) = NoMessage]_vars

C6_Witness ==
    \E p \in Reqs :
        /\ req[p].kind = "GET" /\ req[p].pc = "done" /\ req[p].resp.status = 404
        /\ FindUnique(store, req[p].stub) = NoMessage

\* C8: a DELETE of a stub that has no row changes no row and answers with a
\* not-found outcome that differs from the answer to an unexpected error.
C8_DeleteNotFoundDistinct ==
    [][\A p \in Reqs :
         (Arrives(p, "DELETE") /\ req'[p].error # "StoreError"
           /\ FindUnique(store, req'[p].stub) = NoMessage)
         => store' = store /\ req'[p].resp # Resp500]_vars

\* C9: a DELETE of a stub that has a row removes that row and no other; from
\* then on the stub has no row until a create inserts one, and a GET whose
\* lookup finds no row answers 404.
C9_DeleteRemovesExactlyOne ==
    [][/\ \A p \in Reqs :
            (Arrives(p, "DELETE") /\ req'[p].error = "none")
            => /\ store' = { m \in store : m.stub # req'[p].stub }
               /\ FindUnique(store', req'[p].stub) = NoMessage
               /\ req'[p].resp.status = 200 /\ req'[p].resp.success
       /\ \A stub \in RequestStubs :
            (FindUnique(store, stub) = NoMessage /\ FindUnique(store', stub) # NoMessage)
            => \E c \in Reqs : req[c].kind = "POST" /\ req[c].pc = "create" /\ Steps(c)
       /\ \A p \in Reqs :
            (Arrives(p, "GET") /\ req'[p].error = "none"
              /\ FindUnique(store, req'[p].stub) = NoMessage)
            => req'[p].resp.status = 404 /\ req'[p].pc = "done"]_vars

C9_Witness ==
    \E d, g \in Reqs, m \in store :
        /\ req[d].kind = "DELETE" /\ req[d].pc = "done" /\ req[d].resp.success
        /\ req[g].kind = "GET" /\ req[g].pc = "done" /\ req[g].resp.status = 404
        /\ req[g].stub = req[d].stub /\ d < g
        /\ m.stub # req[d].stub

\* C10: when generateUniqueStub has used all its retries, the creation ends
\* in a generic server error (500, no field messages) and inserts no row.
C10_ExhaustedIsServerError ==
    [][\A p \in Reqs :
         (req[p].kind = "POST" /\ req[p].pc = "validate" /\ req[p].stub = EmptyStub
           /\ Responds(p))
         => /\ req'[p].resp.status = 500
            /\ req'[p].resp.errors = NoErrors
            /\ store' = store]_vars

\* C11: a creation whose insert the store rejects as a duplicate stub goes back
\* to allocating a stub and does not end in an error response; the rejected
\* content is not stored under the stub.
C11_DuplicateRetriesAllocation ==
    [][\A p \in Reqs :
         (req[p].kind = "POST" /\ req[p].pc = "create" /\ Steps(p)
           /\ UniqueViolation(store, req[p].stub) /\ req'[p].error # "StoreError"
           /\ req'[p].pc # "aborted")
         => /\ req'[p].pc = "generate"
            /\ req'[p].resp = NoResp
            /\ store' = store]_vars

\* C12: no two rows of the table have the same stub.
C12_StubsUnique ==
    \A m, n \in store : m.stub = n.stub => m = n

C12_Witness ==
    \E p, q \in Reqs, m, n \in store :
        /\ m.stub # n.stub
        /\ Created(p) /\ req[p].message = m
        /\ req[q].kind = "POST" /\ req[q].pc = "done" /\ req[q].error = "P2002"

\* The stubs the table holds.
StoredStubs == { m.stub : m \in store }
\* Request p runs one pass of generateUniqueStub's loop in this step, with the
\* batch `candidates` and an answer from the store.
Probes(p, candidates) == Generate(p, FALSE, candidates)
\* generateUniqueStub has returned to request p in this step.
Returned(p) == req[p].pc = "generate" /\ req'[p].pc = "validate"

\* C13: a stub generateUniqueStub returns has StubLength (8) characters, all
\* of the 62-symbol character set; it is a candidate of the batch just probed,
\* every candidate before it in the batch is a stored stub, and it is not a
\* stored stub at the probe.
C13_ReturnedStubShape ==
    [][\A p \in Reqs : (Returned(p) /\ req'[p].stub # EmptyStub) =>
         \A candidates \in Batches : Probes(p, candidates)
         => /\ Len(req'[p].stub) = StubLength
            /\ \A i \in 1..Len(req'[p].stub) : req'[p].stub[i] \in Characters
            /\ \E i \in 1..BatchSize :
                  /\ candidates[i] = req'[p].stub
                  /\ \A j \in 1..(i - 1) : candidates[j] \in StoredStubs
            /\ req'[p].stub \notin StoredStubs]_vars

C13_Witness ==
    \E p \in Reqs, m \in store :
        /\ req[p].kind = "POST" /\ req[p].pc = "validate"
        /\ req[p].stub # EmptyStub /\ req[p].stub # m.stub

\* C14: generateUniqueStub makes at most Retries (3) passes, each with one
\* batch and one probe: the count of failed passes stays below Retries; a pass
\* whose batch has a candidate that is not stored returns a stub at once; a
\* pass is followed by another only when its whole batch is stored; and null
\* is returned exactly by the pass number Retries when its whole batch is
\* stored (every earlier pass having failed the same way).
C14_BoundedRetries ==
    /\ [](\A p \in Reqs : req[p].retry \in 0..(Retries - 1))
    /\ [][\A p \in Reqs : (req[p].pc = "generate" /\ Steps(p)) =>
           \A candidates \in Batches : Probes(p, candidates) =>
             LET allTaken == \A i \in 1..BatchSize : candidates[i] \in StoredStubs
             IN /\ ~allTaken => Returned(p) /\ req'[p].stub # EmptyStub
                /\ (Returned(p) /\ req'[p].stub = EmptyStub)
                     <=> (allTaken /\ req[p].retry = Retries - 1)
                /\ ~Returned(p) =>
                     /\ allTaken /\ req'[p].pc = "generate"
                     /\ req'[p].retry = req[p].retry + 1]_vars

C14_Witness ==
    \E p, q \in Reqs :
        /\ req[p].kind = "POST" /\ req[p].pc = "validate" /\ req[p].stub = EmptyStub
        /\ req[q].kind = "POST" /\ req[q].pc = "generate" /\ req[q].retry = Retries - 1

\* A stub that breaks none of the stub rules against the stored stubs.
StubAcceptable(stub) ==
    /\ Len(stub) >= MinStubLength /\ Len(stub) <= MaxStubLength
    /\ \A i \in 1..Len(stub) : stub[i] \in Characters
    /\ stub \notin StoredStubs
\* Request p runs validateMessage in this step and the store answers.
Validates(p) ==
    /\ req[p].kind = "POST" /\ req[p].pc = "validate" /\ Steps(p)
    /\ req'[p].pc # "aborted" /\ req'[p].error # "StoreError"

\* C15: createMessage rejects a body of length 0 and a body longer than
\* MaxContentLength (10,000) with a validation error (422 with a message
\* under `content`, no row inserted); a body of length 1 to MaxContentLength
\* gets no message under `content` and, with an acceptable stub allocated,
\* passes validation and goes on to the insert.
C15_ContentLengthLimits ==
    [][\A p \in Reqs : Validates(p) =>
         LET n == req[p].content.length
         IN /\ (n = 0 \/ n > MaxContentLength)
                 => /\ Responds(p) /\ req'[p].error = "ModelValidationError"
                    /\ req'[p].resp.status = 422
                    /\ Len(req'[p].resp.errors.content) > 0
                    /\ store' = store
            /\ (n >= 1 /\ n <= MaxContentLength)
                 => /\ req'[p].resp.errors.content = <<>>
                    /\ StubAcceptable(req[p].stub) => req'[p].pc = "create"]_vars

C15_Witness ==
    \E p, q \in Reqs :
        /\ Created(p) /\ req[p].content.length = MaxContentLength
        /\ req[q].kind = "POST" /\ req[q].pc = "done" /\ req[q].resp.status = 422
        /\ req[q].content.length = MaxContentLength + 1

\* A finished call of validateMessage whose lookup the store answered.
Validated(p) ==
    req[p].kind = "validateMessage" /\ req[p].pc = "done" /\ req[p].error # "StoreError"
Thrown(p) == req[p].error = "ModelValidationError"
Listed(list, msg) == \E i \in 1..Len(list) : list[i] = msg

\* C16: validateMessage throws, with a message under `stub`, for a stub
\* shorter than MinStubLength (8) or longer than MaxStubLength (32), for a
\* stub with a character outside the character set and for a stored stub; for
\* every other stub it puts no message under `stub`, and returns when the
\* content is valid too.
C16_StubRules ==
    \A p \in Reqs : Validated(p) =>
        IF StubAcceptable(req[p].stub)
        THEN /\ req[p].resp.errors.stub = <<>>
             /\ (req[p].content.length >= 1 /\ req[p].content.length <= MaxContentLength)
                  => ~Thrown(p)
        ELSE Thrown(p) /\ Len(req[p].resp.errors.stub) > 0

C16_Witness ==
    \E p \in Reqs :
        /\ Validated(p) /\ ~Thrown(p)
        /\ Len(req[p].stub) = MaxStubLength /\ store # {}

\* C17: the error validateMessage throws lists, under `content` and `stub`,
\* the message of every rule the data breaks and no other; it is thrown
\* exactly when a rule is broken.
C17_AllViolationsListed ==
    \A p \in Reqs : Validated(p) =>
        LET content == req[p].content
            stub == req[p].stub
            errors == req[p].resp.errors
            required == content.length = 0
            tooLong == content.length > MaxContentLength
            noStub == Len(stub) = 0
            badLength == Len(stub) < MinStubLength \/ Len(stub) > MaxStubLength
            taken == stub \in StoredStubs
            notAlnum == \E i \in 1..Len(stub) : stub[i] \notin Characters
        IN /\ Listed(errors.content, "Content is required") <=> required
           /\ Listed(errors.content, "Content is too long") <=> tooLong
           /\ Listed(errors.stub, "Stub is required") <=> noStub
           /\ Listed(errors.stub, "Stub must be between 8 and 32 characters") <=> badLength
           /\ Listed(errors.stub, "Stub must be unique") <=> taken
           /\ Listed(errors.stub, "Stub must be alphanumeric") <=> notAlnum
           /\ Len(errors.content) + Len(errors.stub)
                = Cardinality({ b \in { <<1, required>>, <<2, tooLong>>, <<3, noStub>>,
                                       <<4, badLength>>, <<5, taken>>, <<6, notAlnum>> } :
                                b[2] })
           /\ Thrown(p) <=> (required \/ tooLong \/ noStub \/ badLength \/ taken \/ notAlnum)

C17_Witness ==
    \E p \in Reqs :
        /\ Validated(p) /\ Thrown(p)
        /\ Len(req[p].resp.errors.content) = 1 /\ Len(req[p].resp.errors.stub) = 2
        /\ req[p].content.length > MaxContentLength

\* C18: a createMessage that succeeds inserts one row, with the submitted
\* content, a null readAt and a stub no row had, and changes no other row;
\* every other step of a creation, the failed validation included, leaves
\* the table as it was.
C18_CreateFrame ==
    [][\A p \in Reqs : (req[p].kind = "POST" /\ Steps(p)) =>
         IF Responds(p) /\ req'[p].resp.status = 200
         THEN \E m \in store' :
                 /\ m \notin store /\ store' = store \cup {m}
                 /\ m.content = req[p].content /\ m.readAt = NULL
                 /\ m.stub \notin StoredStubs /\ \A n \in store : n.id # m.id
                 /\ req'[p].resp.stub = m.stub
         ELSE store' = store]_vars

C18_Witness ==
    \E p, q \in Reqs, m, n \in store :
        /\ Created(p) /\ req[p].message = m /\ n.id < m.id
        /\ req[q].kind = "POST" /\ req[q].pc = "done"
        /\ req[q].error = "ModelValidationError"

\* decrypt of an envelope that encrypt made has returned or thrown.
Decrypted == client.pc = "decrypted" /\ client.envelope # NoEnvelope
\* The envelope decrypt received is not the one encrypt returned.
EnvelopeChanged == client.received # client.envelope

\* C19: decrypt of the envelope encrypt returned, with the password encrypt
\* was given, returns the plaintext encrypt was given.
C19_RoundTrip ==
    (Decrypted /\ ~EnvelopeChanged /\ client.passwordUsed = client.password)
    => (client.result.ok /\ client.result.text = client.plaintext)

\* C20: decrypt of an envelope whose data, iv or salt was changed, or with
\* another password than encrypt was given, throws and returns no string.
C20_ChangedEnvelopeFails ==
    (Decrypted /\ (EnvelopeChanged \/ client.passwordUsed # client.password))
    => ~client.result.ok

\* An envelope field that atob rejects, a decoded iv that is not IvLength bytes
\* or a decoded salt that is not SaltLength bytes.
Malformed(data) ==
    \/ \E field \in EnvelopeFields : ~base64ToArrayBuffer(data[field]).ok
    \/ Len(base64ToArrayBuffer(data.iv).bytes) # IvLength
    \/ Len(base64ToArrayBuffer(data.salt).bytes) # SaltLength

\* C21: decrypt of an envelope with a field that is not valid base64, with an
\* iv that does not decode to 12 bytes or with a salt that does not decode to
\* 16 bytes throws before it calls deriveKey or AES-GCM decrypt.
C21_MalformedEnvelopeRejected ==
    (client.pc = "decrypted" /\ Malformed(client.received))
    => (~client.result.ok /\ client.result.calls = {})

\* The bytes are the UTF-8 encoding of some string.
ValidUtf8(bytes) == Encode(DecodeFrom(bytes, 1)) = bytes

\* What AES-GCM returns for the envelope decrypt was given, under the key of
\* the password decrypt was given.
Authenticated ==
    Open(client.sealed,
         deriveKey(client.passwordUsed, base64ToArrayBuffer(client.received.salt).bytes),
         base64ToArrayBuffer(client.received.iv).bytes,
         base64ToArrayBuffer(client.received.data).bytes)

\* C22: when the bytes AES-GCM authenticated and returned are not valid UTF-8,
\* decrypt throws and returns no string.
C22_InvalidEncodingRejected ==
    (/\ client.pc = "decrypted"
     /\ \A field \in EnvelopeFields : base64ToArrayBuffer(client.received[field]).ok
     /\ Authenticated.ok /\ ~ValidUtf8(Authenticated.bytes))
    => ~client.result.ok

\* decrypt, called by the message page, threw.
DecryptFailed == client.view.pc = "done" /\ client.view.result.error # ""

\* C23: whatever made decrypt fail on the message page, the page shows the
\* same generic error text.
C23_SameErrorForEveryCause ==
    DecryptFailed
    => Rendered(client.view) =
          [shows |-> "error", text |-> UnexpectedErrorMessage, readAt |-> NULL]

\* C25: a step of a GET in which markMessageAsRead consumes a Pending row
\* answers 200 with the content that row held before the update and readAt
\* null, whatever other requests did between the GET's two store calls.
C25_ConsumedIsDelivered ==
    [][\A p \in Reqs :
         LET m == FindUnique(store, req[p].stub)
         IN (/\ req[p].kind = "GET" /\ req[p].pc = "markUpdate" /\ Steps(p)
             /\ m # NoMessage /\ m.readAt = NULL /\ store' # store)
            => /\ req'[p].resp.status = 200
               /\ req'[p].resp.message = m.content
               /\ req'[p].resp.readAt = NULL]_vars

\* C26: a stored row holds the sentinel as content exactly when its readAt is
\* set.
C26_SentinelIffConsumed ==
    \A m \in store : (m.content = SENTINEL) <=> (m.readAt # NULL)

\* C27: a message page whose URL has no key sends no request and changes no
\* row, and once fetchData has ended it shows 'No key provided'.
C27_NoKeyNoRequest ==
    /\ [](client.view.hash = <<>> =>
            /\ \A p \in Reqs : req[p].pc = "idle"
            /\ client.view.pc = "done" =>
                  Rendered(client.view) =
                     [shows |-> "error", text |-> NoKeyMessage, readAt |-> NULL])
    /\ [][client.view.hash = <<>> => store' = store]_vars

C27_Witness ==
    /\ client.view.hash = <<>> /\ client.view.pc = "done"
    /\ \E m \in store :
          m.stub = ViewStub /\ m.content = EnvelopeText /\ m.readAt = NULL

\* The message page has called decrypt.
DecryptCalled == client.view.pc = "decrypting" \/ client.view.result # NoResult

\* C28: the message page calls decrypt only on a successful response whose
\* readAt is null; on a response with a readAt it ends showing the 'already
\* read' notice with that readAt, and on a 404 or another error response it
\* ends showing the error.
C28_DecryptOnlyWhenPending ==
    LET view == client.view
        response == client.view.response
    IN /\ DecryptCalled => (Ok(response) /\ response.readAt = NULL)
       /\ (view.pc = "done" /\ Ok(response) /\ response.readAt # NULL)
            => Rendered(view) =
                  [shows |-> "alreadyRead", text |-> "", readAt |-> response.readAt]
       /\ (view.pc = "done" /\ response.status # 0 /\ ~Ok(response))
            => Rendered(view) =
                  [shows |-> "error", text |-> response.error, readAt |-> NULL]

C28_Witness ==
    /\ client.view.pc = "done" /\ ~DecryptCalled
    /\ client.view.response.status = 200
    /\ client.view.response.message = SENTINEL
    /\ Rendered(client.view).shows = "alreadyRead"

\* The creation page's submission has ended without a 2xx response.
SubmissionFailed ==
    client.sender.pc = "done" /\ client.sender.body # EmptyString
    /\ ~Ok(client.sender.response)

\* C29: a submission of the creation page that ended without success leaves
\* the page showing a non-empty error and no share URL.
C29_FailedSubmissionShowsError ==
    SubmissionFailed
    => /\ client.sender.stub = NULL
       /\ RenderedSender(client.sender).shows = "form"
       /\ RenderedSender(client.sender).text # ""

\* C30: the message page leaves the loading state on every path of
\* fetchData: `loading` is true exactly until fetchData has ended, it becomes
\* false eventually and stays false.
C30_LoadingEnds ==
    /\ [](client.view.loading <=> client.view.pc # "done")
    /\ <>[](~client.view.loading)

C30_Witness ==
    /\ client.view.pc = "done" /\ ~client.view.loading
    /\ client.view.result.ok /\ client.view.message.set
    /\ client.view.message.content = client.plaintext

====
